---- MODULE Spec2Model ----
(***************************************************************************)
(* Model of main.py, the Discord application emoji manager: one run of     *)
(* main() reconciles a local folder of image files with the application's  *)
(* remote emoji set (upload what is only local, delete what is only        *)
(* remote) and writes the emoji codes file.                                *)
(*                                                                         *)
(* Strings that the program builds, searches or sorts (emoji names, ids,   *)
(* diagnostic messages, report lines) are sequences of code points, so     *)
(* concatenation, substring search and sorted() are computed as Python     *)
(* computes them.  File extensions and tags are plain TLA+ strings.        *)
(*                                                                         *)
(* Environment: every HTTP call returns a response with a status (no       *)
(* transport exception), local files are readable, os.unlink of a scratch  *)
(* file succeeds, and the remote emoji set is changed by this program's    *)
(* calls only.                                                             *)
(***************************************************************************)
EXTENDS Integers, Sequences, FiniteSets, TLC

\* ------------------------------------------------------------------ bounds

\* Number of consecutive executions of main() under SpecRuns.
MaxRuns == 2
\* Largest number of files in the emoji folder.
MaxFiles == 2
\* Largest number of emojis on the remote side before the first run.
MaxRemote == 2

\* --------------------------------------------------------- program constants

HTTP_OK == 200
HTTP_CREATED == 201
HTTP_NO_CONTENT == 204
\* time.sleep(1.5) and time.sleep(5), in tenths of a second
SLEEP_AFTER_SUCCESS == 15
SLEEP_RATE_LIMITED == 50
\* f"{emoji_name:30}"
NAME_WIDTH == 30

SUPPORTED_FORMATS == {".png", ".jpg", ".jpeg", ".gif", ".webp", ".svg"}

\* ------------------------------------------------------------------ strings

\* "429"
RATE_LIMIT_TEXT == <<52, 50, 57>>
\* "Success"
MSG_SUCCESS == <<83, 117, 99, 99, 101, 115, 115>>
\* "SVG support not available (cairosvg not installed)"
MSG_NO_SVG_SUPPORT ==
  <<83, 86, 71, 32, 115, 117, 112, 112, 111, 114, 116, 32, 110, 111, 116, 32,
    97, 118, 97, 105, 108, 97, 98, 108, 101, 32, 40, 99, 97, 105, 114, 111,
    115, 118, 103, 32, 110, 111, 116, 32, 105, 110, 115, 116, 97, 108, 108,
    101, 100, 41>>
\* "Failed to convert SVG to PNG"
MSG_CONVERT_FAILED ==
  <<70, 97, 105, 108, 101, 100, 32, 116, 111, 32, 99, 111, 110, 118, 101, 114,
    116, 32, 83, 86, 71, 32, 116, 111, 32, 80, 78, 71>>
\* "Unsupported format"
MSG_UNSUPPORTED ==
  <<85, 110, 115, 117, 112, 112, 111, 114, 116, 101, 100, 32, 102, 111, 114,
    109, 97, 116>>

\* str(n) for a natural number: its decimal digits.
RECURSIVE Digits(_)
Digits(n) ==
  IF n < 10 THEN <<48 + n>> ELSE Digits(n \div 10) \o <<48 + (n % 10)>>

\* Python's `sub in s` for strings.
Contains(s, sub) ==
  \E i \in 1..(Len(s) - Len(sub) + 1) : SubSeq(s, i, i + Len(sub) - 1) = sub

\* Python's `a < b` for strings: lexicographic by code point.
LexLess(a, b) ==
  \E k \in 1..(Len(b)) :
    /\ \A j \in 1..(k - 1) : j <= Len(a) /\ a[j] = b[j]
    /\ \/ k = Len(a) + 1
       \/ k <= Len(a) /\ a[k] < b[k]

\* Dictionaries.
EmptyDict == [k \in {} |-> k]
DictPut(d, k, v) == [x \in (DOMAIN d) \cup {k} |-> IF x = k THEN v ELSE d[x]]
DictDel(d, k) == [x \in (DOMAIN d) \ {k} |-> d[x]]

\* JSON object access with a default: obj.get('animated', False).
GetAnimated(obj) == IF "animated" \in DOMAIN obj THEN obj.animated ELSE FALSE

\* ------------------------------------------------------- remote side (API)

\* The names emojis and files carry in the model: "B", "a", "ab".
StemPool == << <<66>>, <<97>>, <<97, 98>> >>
Stems == {StemPool[i] : i \in 1..Len(StemPool)}
\* How the remote serialises an emoji's animated flag: true, false, or the
\* key left out of the JSON object.
AnimFlags == {"true", "false", "omit"}
\* The flags of the emojis that are on the remote side before the first
\* run: "B" animated, "a" with the key left out, "ab" not animated.
InitialFlag(name) ==
  IF name = StemPool[1] THEN "true"
  ELSE IF name = StemPool[2] THEN "omit"
  ELSE "false"

\* The JSON object the remote returns for an emoji (a List item, or the
\* body of a 201 Create response).
EmojiJson(name, entry) ==
  IF entry.anim = "omit"
    THEN [name |-> name, id |-> entry.id]
    ELSE [name |-> name, id |-> entry.id, animated |-> (entry.anim = "true")]

\* response.json()['items'] of GET /applications/{id}/emojis.
ListItems(remoteSet) == {EmojiJson(n, remoteSet[n]) : n \in DOMAIN remoteSet}

ListStatuses == {HTTP_OK, 401}

\* Response texts of failed calls: an empty body, and a body that happens
\* to hold the digits 429 ("e4290").
PlainText == <<>>
TextWith429 == <<101, 52, 50, 57, 48>>

\* Responses the remote may give to POST /applications/{id}/emojis with
\* the payload {name, image: data:<image_type>;base64,...}: the emoji is
\* created exactly when the status is 201 (animated when the image is a
\* GIF), and a name that is already taken is not created again.
CreateResponses(remoteSet, id, name, image_type) ==
  {[status |-> 400, text |-> PlainText, entry |-> EmptyDict],
   [status |-> 500, text |-> TextWith429, entry |-> EmptyDict],
   [status |-> 429, text |-> PlainText, entry |-> EmptyDict]}
  \cup (IF name \in DOMAIN remoteSet
          THEN {}
          ELSE {[status |-> HTTP_CREATED, text |-> PlainText,
                 entry |-> [id |-> Digits(id),
                            anim |-> IF image_type = "image/gif" THEN "true"
                                     ELSE "false"]]})

\* Responses the remote may give to DELETE /applications/{id}/emojis/{eid}:
\* the emoji is removed exactly when the status is 204.
DeleteResponses ==
  {[status |-> HTTP_NO_CONTENT, text |-> PlainText],
   [status |-> 404, text |-> PlainText],
   [status |-> 429, text |-> PlainText]}

\* ---------------------------------------------------------------- program

\* Python truthiness of an environment value: None and "" are falsy.
Falsy(v) == v = "None" \/ v = ""

\* main: `if not BOT_TOKEN or not APPLICATION_ID`.
ConfigMissing(token, app) == Falsy(token) \/ Falsy(app)

\* get_existing_emojis, lines 62-67: the name -> {id, animated} dictionary
\* of the items of a response.
ItemsToDict(items) ==
  [n \in {i.name : i \in items} |->
     LET item == CHOOSE i \in items : i.name = n
     IN  [id |-> item.id, animated |-> GetAnimated(item)]]

\* Mutant: the status is not looked at.
get_existing_emojis_any_status(status, items) == ItemsToDict(items)

\* Mutant: the dictionary is returned before it is filled.
get_existing_emojis_unfilled(status, items) == EmptyDict

\* get_existing_emojis: the dictionary of a 200 response, the empty
\* dictionary for any other status.
get_existing_emojis(status, items) ==
  IF status = HTTP_OK THEN ItemsToDict(items) ELSE EmptyDict

\* find_all_emoji_files: the files in rglob order, those with a supported
\* suffix kept; a dictionary in insertion order (a sequence of entries with
\* distinct names), a later file of the same stem replacing the entry in
\* place.
RECURSIVE find_all_emoji_files(_)
find_all_emoji_files(fs) ==
  IF fs = <<>> THEN <<>>
  ELSE LET before == find_all_emoji_files(SubSeq(fs, 1, Len(fs) - 1))
           f == fs[Len(fs)]
           entry == [name |-> f.stem, path |-> f]
       IN  IF f.ext \notin SUPPORTED_FORMATS THEN before
           ELSE IF \E j \in 1..Len(before) : before[j].name = f.stem
             THEN [j \in 1..Len(before) |->
                     IF before[j].name = f.stem THEN entry ELSE before[j]]
             ELSE Append(before, entry)

LocalNames(local) == {local[i].name : i \in 1..Len(local)}

\* convert_svg_to_png: the scratch file's path, or None; `left` is the
\* number of scratch files the call leaves on disk when it returns None.
\* cairosvg.svg2png raises on a file that is no well-formed SVG, after
\* NamedTemporaryFile(delete=False) has created the scratch file.
convert_svg_to_png(svgSupport, svg_path) ==
  IF ~svgSupport THEN [path |-> "None", left |-> 0]
  ELSE IF svg_path.content = "svg" THEN [path |-> "tmp.png", left |-> 0]
  ELSE [path |-> "None", left |-> 1]

\* upload_emoji's lookup of the MIME type; "None" is the unsupported case.
ImageType(ext) ==
  IF ext = ".png" THEN "image/png"
  ELSE IF ext \in {".jpg", ".jpeg"} THEN "image/jpeg"
  ELSE IF ext = ".gif" THEN "image/gif"
  ELSE IF ext = ".webp" THEN "image/webp"
  ELSE "None"

\* f"{response.status_code} - {response.text}"
FailureMessage(resp) == Digits(resp.status) \o <<32, 45, 32>> \o resp.text

\* upload_emoji, lines 99-100 and 111-120: the MIME type of the image it
\* posts, an .svg file having become a .png scratch file.
PostedImageType(ext) == ImageType(IF ext = ".svg" THEN ".png" ELSE ext)

\* Mutant: upload_emoji without its own `if not SVG_SUPPORT` check, the
\* conversion's None being what reports the failure.
upload_emoji_unchecked(file_path, name, svgSupport, resp) ==
  LET failed(msg, left) ==
        [success |-> FALSE, message |-> msg, emoji_data |-> EmptyDict,
         posted |-> FALSE, scratch |-> left]
      ext == file_path.ext
      conv == convert_svg_to_png(svgSupport, file_path)
  IN  IF ext = ".svg" /\ conv.path = "None"
        THEN failed(MSG_CONVERT_FAILED, conv.left)
      ELSE IF PostedImageType(ext) = "None" THEN failed(MSG_UNSUPPORTED, 0)
      ELSE IF resp.status = HTTP_CREATED
        THEN [success |-> TRUE, message |-> MSG_SUCCESS,
              emoji_data |-> EmojiJson(name, resp.entry),
              posted |-> TRUE, scratch |-> 0]
        ELSE [success |-> FALSE, message |-> FailureMessage(resp),
              emoji_data |-> EmptyDict, posted |-> TRUE, scratch |-> 0]

\* upload_emoji: (success, message, emoji_data), with what it did on the
\* way: `posted` (the POST was sent) and `scratch` (scratch files it left
\* on disk).  `resp` is the remote's answer should the POST be sent.
upload_emoji(file_path, name, svgSupport, resp) ==
  LET failed(msg, left) ==
        [success |-> FALSE, message |-> msg, emoji_data |-> EmptyDict,
         posted |-> FALSE, scratch |-> left]
      ext == file_path.ext
      conv == convert_svg_to_png(svgSupport, file_path)
  IN  IF ext = ".svg" /\ ~svgSupport THEN failed(MSG_NO_SVG_SUPPORT, 0)
      ELSE IF ext = ".svg" /\ conv.path = "None"
        THEN failed(MSG_CONVERT_FAILED, conv.left)
      \* the scratch file is read, then unlinked; then the MIME lookup
      ELSE IF PostedImageType(ext) = "None" THEN failed(MSG_UNSUPPORTED, 0)
      ELSE IF resp.status = HTTP_CREATED
        THEN [success |-> TRUE, message |-> MSG_SUCCESS,
              emoji_data |-> EmojiJson(name, resp.entry),
              posted |-> TRUE, scratch |-> 0]
        ELSE [success |-> FALSE, message |-> FailureMessage(resp),
              emoji_data |-> EmptyDict, posted |-> TRUE, scratch |-> 0]

\* delete_emoji: (success, message).
delete_emoji(resp) ==
  IF resp.status = HTTP_NO_CONTENT
    THEN [success |-> TRUE, message |-> MSG_SUCCESS]
    ELSE [success |-> FALSE, message |-> FailureMessage(resp)]

\* Mutant: no sleep after a failure.
PauseAfterFailure_none(message) == 0

\* main: the sleep after a failed item, `if "429" in str(message)`.
PauseAfterFailure(message) ==
  IF Contains(message, RATE_LIMIT_TEXT) THEN SLEEP_RATE_LIMITED ELSE 0

\* Mutant: the local names are not subtracted.
emojis_to_delete_all(existing, local) == DOMAIN existing

\* main: emojis_to_delete = set(existing_emojis.keys()) - set(local_files.keys())
emojis_to_delete(existing, local) == (DOMAIN existing) \ LocalNames(local)

\* Mutant: the animated flag is ignored.
format_emoji_code_plain(emoji_name, emoji_id, animated) ==
  <<60, 58>> \o emoji_name \o <<58>> \o emoji_id \o <<62>>

\* format_emoji_code: f"<{prefix}:{emoji_name}:{emoji_id}>"
format_emoji_code(emoji_name, emoji_id, animated) ==
  LET prefix == IF animated THEN <<97>> ELSE <<>>
  IN  <<60>> \o prefix \o <<58>> \o emoji_name \o <<58>> \o emoji_id \o <<62>>

\* Mutant: descending order.
RECURSIVE sorted_reverse(_)
sorted_reverse(S) ==
  IF S = {} THEN <<>>
  ELSE LET m == CHOOSE x \in S : \A y \in S \ {x} : LexLess(y, x)
       IN  <<m>> \o sorted_reverse(S \ {m})

\* sorted(names): ascending, the least remaining name first.
RECURSIVE sorted(_)
sorted(S) ==
  IF S = {} THEN <<>>
  ELSE LET m == CHOOSE x \in S : \A y \in S \ {x} : LexLess(x, y)
       IN  <<m>> \o sorted(S \ {m})

\* f"{emoji_name:30}": the name, then spaces up to the width.
RECURSIVE PadName(_)
PadName(s) == IF Len(s) >= NAME_WIDTH THEN s ELSE PadName(Append(s, 32))

\* write_emoji_codes: the count of the "Total emojis" line and the emoji
\* lines of the file (the fixed title and separator and the timestamp
\* line are left out).
write_emoji_codes(emojis_dict) ==
  LET names == sorted(DOMAIN emojis_dict)
  IN  [total |-> Cardinality(DOMAIN emojis_dict),
       lines |-> [i \in 1..Len(names) |->
                    PadName(names[i]) \o <<32>> \o
                    format_emoji_code(names[i], emojis_dict[names[i]].id,
                                      GetAnimated(emojis_dict[names[i]]))]]

\* Mutant: the error counter is not looked at.
ExitStatus_zero(errors) == 0

\* main: `if error_count > 0: sys.exit(1)`, else the interpreter's exit 0.
ExitStatus(errors) == IF errors > 0 THEN 1 ELSE 0

\* main: what a successful upload and a successful delete do to the
\* in-memory inventory.
RecordUploaded(existing, name, emoji_data) ==
  DictPut(existing, name,
          [id |-> emoji_data.id, animated |-> GetAnimated(emoji_data)])

\* Mutant: the entry is kept.
RecordDeleted_keep(existing, name) == existing

RecordDeleted(existing, name) == DictDel(existing, name)

\* ------------------------------------------------------------------ state

VARIABLES
  BOT_TOKEN, APPLICATION_ID, SVG_SUPPORT, \* module-level configuration
  files,            \* the emoji folder: its files in rglob order
  remote,           \* the application's emojis on the remote side
  nextId,           \* the id the remote gives the next emoji it creates
  scratch,          \* scratch .png files present in the temp directory
  report_file,      \* what this execution has written to EMOJI_CODES_FILE:
                    \* <<>> before the write, then <<content>>
  pc,               \* where main() is
  run,              \* which execution of main() this is
  existing_emojis, local_files, todo, idx,
  uploaded_count, updated_count, deleted_count, skipped_count, error_count,
  exit_code,        \* -1 while main() runs
  list_ok,          \* whether this run's List call returned 200
  listed,           \* the names this run's List call returned
  attempts, posts, deletes,  \* per name: upload_emoji calls, POSTs, DELETEs
  returned,         \* per name: the JSON object the remote returned
  last,             \* the item main() handled last
  prev              \* the previous execution: its List, its calls, its exit

config == <<BOT_TOKEN, APPLICATION_ID, SVG_SUPPORT, files>>
world == <<remote, nextId, scratch>>
locals == <<existing_emojis, local_files, todo, idx>>
counters ==
  <<uploaded_count, updated_count, deleted_count, skipped_count, error_count>>
history == <<list_ok, listed, attempts, posts, deletes, returned, last, prev>>
vars ==
  <<config, world, report_file, pc, run, locals, counters, exit_code, history>>

\* The files the folder may hold: B.gif, a.png, a.svg (well-formed),
\* ab.svg (not an SVG document), ab.txt.
FileChoices ==
  {[stem |-> StemPool[1], ext |-> ".gif", content |-> "image"],
   [stem |-> StemPool[2], ext |-> ".png", content |-> "image"],
   [stem |-> StemPool[2], ext |-> ".svg", content |-> "svg"],
   [stem |-> StemPool[3], ext |-> ".svg", content |-> "broken"],
   [stem |-> StemPool[3], ext |-> ".txt", content |-> "text"]}
RECURSIVE SeqsUpTo(_, _)
SeqsUpTo(S, n) ==
  IF n = 0 THEN {<<>>}
  ELSE LET shorter == SeqsUpTo(S, n - 1)
       IN  shorter \cup {Append(q, x) : q \in shorter, x \in S}

\* The id of an emoji that is on the remote side before the first run.
InitialId(name) ==
  Digits(100 + CHOOSE i \in 1..Len(StemPool) : StemPool[i] = name)
FirstNewId == 201

InitialRemotes ==
  {[n \in N |-> [id |-> InitialId(n), anim |-> InitialFlag(n)]] :
     N \in {M \in SUBSET Stems : Cardinality(M) <= MaxRemote}}

NoCalls == [n \in Stems |-> 0]
NoItem ==
  [op |-> "none", name |-> <<>>, posted |-> FALSE, status |-> 0,
   message |-> <<>>, pause |-> 0]
NoPrev ==
  [ran |-> FALSE, list_ok |-> FALSE, exit_code |-> -1, calls_ok |-> FALSE]

\* The upload_emoji calls of this execution that returned before the POST.
RECURSIVE UnpostedUploads(_)
UnpostedUploads(N) ==
  IF N = {} THEN 0
  ELSE LET n == CHOOSE x \in N : TRUE
       IN  (attempts[n] - posts[n]) + UnpostedUploads(N \ {n})

Init ==
  /\ BOT_TOKEN \in {"None", "", "token"}
  /\ APPLICATION_ID \in {"None", "app"}
  /\ SVG_SUPPORT \in BOOLEAN
  /\ files \in SeqsUpTo(FileChoices, MaxFiles)
  /\ remote \in InitialRemotes
  \* the configuration check reads nothing else: with a missing value the
  \* other inputs are fixed
  /\ ConfigMissing(BOT_TOKEN, APPLICATION_ID) =>
       SVG_SUPPORT /\ files = <<>> /\ remote = EmptyDict
  /\ nextId = FirstNewId
  /\ scratch = 0
  /\ report_file = <<>>
  /\ pc = "start"
  /\ run = 1
  /\ existing_emojis = EmptyDict
  /\ local_files = <<>>
  /\ todo = {}
  /\ idx = 1
  /\ uploaded_count = 0 /\ updated_count = 0 /\ deleted_count = 0
  /\ skipped_count = 0 /\ error_count = 0
  /\ exit_code = -1
  /\ list_ok = FALSE
  /\ listed = {}
  /\ attempts = NoCalls /\ posts = NoCalls /\ deletes = NoCalls
  /\ returned = EmptyDict
  /\ last = NoItem
  /\ prev = NoPrev

\* ---------------------------------------------------------------- actions

\* main, lines 179-181: the configuration check.
CheckConfig ==
  /\ pc = "start"
  /\ IF ConfigMissing(BOT_TOKEN, APPLICATION_ID)
       THEN pc' = "done" /\ exit_code' = 1
       ELSE pc' = "fetch" /\ exit_code' = exit_code
  /\ UNCHANGED <<config, world, report_file, run, locals, counters, history>>

\* main, lines 183-201: List, the scan of the folder, the counters.
FetchAndScan ==
  /\ pc = "fetch"
  /\ \E status \in ListStatuses :
       /\ existing_emojis' = get_existing_emojis(status, ListItems(remote))
       /\ list_ok' = (status = HTTP_OK)
       /\ listed' = IF status = HTTP_OK THEN DOMAIN remote ELSE {}
       /\ returned' =
            IF status = HTTP_OK
              THEN [n \in DOMAIN remote |-> EmojiJson(n, remote[n])]
              ELSE EmptyDict
  /\ local_files' = find_all_emoji_files(files)
  /\ idx' = 1
  /\ todo' = {}
  /\ uploaded_count' = 0 /\ updated_count' = 0 /\ deleted_count' = 0
  /\ skipped_count' = 0 /\ error_count' = 0
  /\ pc' = "pass1"
  /\ UNCHANGED <<config, world, report_file, run, exit_code, attempts, posts,
                 deletes, last, prev>>

\* main, lines 204-228: one iteration of the loop over local_files.
ProcessLocal ==
  /\ pc = "pass1"
  /\ idx <= Len(local_files)
  /\ LET e == local_files[idx]
     IN  IF e.name \in DOMAIN existing_emojis
           THEN /\ skipped_count' = skipped_count + 1
                /\ last' = [NoItem EXCEPT !.op = "skip", !.name = e.name]
                /\ UNCHANGED <<world, existing_emojis, uploaded_count,
                               error_count, attempts, posts, returned>>
           ELSE \E resp \in CreateResponses(remote, nextId, e.name,
                                            PostedImageType(e.path.ext)) :
                  LET r == upload_emoji(e.path, e.name, SVG_SUPPORT, resp)
                      made == r.posted /\ resp.status = HTTP_CREATED
                  IN  /\ attempts' = [attempts EXCEPT ![e.name] = @ + 1]
                      /\ posts' = IF r.posted
                                    THEN [posts EXCEPT ![e.name] = @ + 1]
                                    ELSE posts
                      /\ remote' = IF made
                                     THEN DictPut(remote, e.name, resp.entry)
                                     ELSE remote
                      /\ nextId' = IF made THEN nextId + 1 ELSE nextId
                      /\ returned' =
                           IF made
                             THEN DictPut(returned, e.name,
                                          EmojiJson(e.name, resp.entry))
                             ELSE returned
                      /\ scratch' = scratch + r.scratch
                      /\ existing_emojis' =
                           IF r.success
                             THEN RecordUploaded(existing_emojis, e.name,
                                                 r.emoji_data)
                             ELSE existing_emojis
                      /\ uploaded_count' =
                           IF r.success THEN uploaded_count + 1
                           ELSE uploaded_count
                      /\ error_count' =
                           IF r.success THEN error_count ELSE error_count + 1
                      /\ last' =
                           [op |-> "upload", name |-> e.name,
                            posted |-> r.posted,
                            status |-> IF r.posted THEN resp.status ELSE 0,
                            message |-> r.message,
                            pause |-> IF r.success THEN SLEEP_AFTER_SUCCESS
                                      ELSE PauseAfterFailure(r.message)]
                      /\ UNCHANGED skipped_count
  /\ idx' = idx + 1
  /\ UNCHANGED <<config, report_file, pc, run, local_files, todo,
                 updated_count, deleted_count, exit_code, list_ok, listed,
                 deletes, prev>>

\* main, lines 230-233: the names to delete, once the first loop is over.
BeginDeletes ==
  /\ pc = "pass1"
  /\ idx > Len(local_files)
  /\ todo' = emojis_to_delete(existing_emojis, local_files)
  /\ pc' = "pass2"
  /\ UNCHANGED <<config, world, report_file, run, existing_emojis,
                 local_files, idx, counters, exit_code, history>>

\* main, lines 235-250: one iteration of the loop over emojis_to_delete
\* (a set: any order).
DeleteNext ==
  /\ pc = "pass2"
  /\ \E emoji_name \in todo, resp \in DeleteResponses :
       LET emoji_id == existing_emojis[emoji_name].id
           r == delete_emoji(resp)
           gone == {n \in DOMAIN remote : remote[n].id = emoji_id}
       IN  /\ deletes' = [deletes EXCEPT ![emoji_name] = @ + 1]
           /\ remote' = IF resp.status = HTTP_NO_CONTENT
                          THEN [n \in (DOMAIN remote) \ gone |-> remote[n]]
                          ELSE remote
           /\ existing_emojis' =
                IF r.success THEN RecordDeleted(existing_emojis, emoji_name)
                ELSE existing_emojis
           /\ deleted_count' =
                IF r.success THEN deleted_count + 1 ELSE deleted_count
           /\ error_count' =
                IF r.success THEN error_count ELSE error_count + 1
           /\ last' =
                [op |-> "delete", name |-> emoji_name, posted |-> TRUE,
                 status |-> resp.status, message |-> r.message,
                 pause |-> IF r.success THEN SLEEP_AFTER_SUCCESS
                           ELSE PauseAfterFailure(r.message)]
           /\ todo' = todo \ {emoji_name}
  /\ UNCHANGED <<config, nextId, scratch, report_file, pc, run, local_files,
                 idx, uploaded_count, updated_count, skipped_count, exit_code,
                 list_ok, listed, attempts, posts, returned, prev>>

\* main, lines 254-267: the codes file, the summary, the exit status.
WriteAndExit ==
  /\ pc = "pass2"
  /\ todo = {}
  /\ report_file' = <<write_emoji_codes(existing_emojis)>>
  /\ exit_code' = ExitStatus(error_count)
  /\ pc' = "done"
  /\ UNCHANGED <<config, world, run, locals, counters, history>>

\* The operator runs the program again: a new process, the same folder,
\* the same remote side, the same temp directory; the codes file is
\* opened with 'w', so what it held before is never read.
RunAgain ==
  /\ pc = "done"
  /\ run < MaxRuns
  /\ run' = run + 1
  /\ prev' = [ran |-> TRUE, list_ok |-> list_ok, exit_code |-> exit_code,
              \* every POST and DELETE that was sent succeeded
              calls_ok |-> (error_count = UnpostedUploads(Stems))]
  /\ pc' = "start"
  /\ existing_emojis' = EmptyDict
  /\ local_files' = <<>>
  /\ todo' = {}
  /\ idx' = 1
  /\ uploaded_count' = 0 /\ updated_count' = 0 /\ deleted_count' = 0
  /\ skipped_count' = 0 /\ error_count' = 0
  /\ exit_code' = -1
  /\ list_ok' = FALSE
  /\ listed' = {}
  /\ attempts' = NoCalls /\ posts' = NoCalls /\ deletes' = NoCalls
  /\ returned' = EmptyDict
  /\ last' = NoItem
  /\ report_file' = <<>>
  /\ UNCHANGED <<config, world>>

Next ==
  \/ CheckConfig
  \/ FetchAndScan
  \/ ProcessLocal
  \/ BeginDeletes
  \/ DeleteNext
  \/ WriteAndExit

\* One execution of main().
Spec == Init /\ [][Next]_vars

\* Up to MaxRuns executions of main(), one after the other.
SpecRuns == Init /\ [][Next \/ RunAgain]_vars

\* ----------------------------------------------------------------- claims

\* L: the names the scanner found.  R: the names List returned.
L == LocalNames(local_files)
R == listed
\* main() has run to its end (it did not stop at the configuration check).
Finished == pc = "done" /\ ~ConfigMissing(BOT_TOKEN, APPLICATION_ID)
LocalEntry(n) == CHOOSE e \in {local_files[i] : i \in 1..Len(local_files)} : e.name = n
\* An upload of this file returns before the POST: an .svg file without
\* cairosvg, or one that cairosvg cannot render.
FailsBeforePost(f) ==
  f.ext = ".svg" /\ (~SVG_SUPPORT \/ f.content # "svg")
\* This step handled an item with an HTTP call (a POST or a DELETE).
CallStep == posts' # posts \/ deletes' # deletes
\* Every item of both loops was handled once.
AllItemsHandled ==
  /\ \A n \in L \ R : attempts[n] = 1
  /\ \A n \in R \ L : deletes[n] = 1

\* C1 as stated: after a run, every name in L and not in R has had a Create
\* call, every name in R and not in L a Delete call, and a name in both has
\* had neither.
C1_Original ==
  Finished =>
    /\ \A n \in L \ R : posts[n] >= 1
    /\ \A n \in R \ L : deletes[n] >= 1
    /\ \A n \in L \cap R : posts[n] = 0 /\ deletes[n] = 0

\* C1, amended: after a run, every name in L and not in R has had exactly
\* one upload_emoji call, which sent a Create call unless the file is an
\* .svg and cairosvg is missing or cannot render it; every name in R and not
\* in L has had exactly one Delete call and no Create call; a name in both
\* has had neither; no other name has had a call.
C1_Reconciliation ==
  Finished =>
    /\ \A n \in L \ R :
         /\ attempts[n] = 1 /\ deletes[n] = 0
         /\ posts[n] = (IF FailsBeforePost(LocalEntry(n).path) THEN 0 ELSE 1)
    /\ \A n \in R \ L : deletes[n] = 1 /\ attempts[n] = 0 /\ posts[n] = 0
    /\ \A n \in Stems \ ((L \ R) \cup (R \ L)) :
         attempts[n] = 0 /\ posts[n] = 0 /\ deletes[n] = 0

\* A finished run with a local-only name whose upload sent no Create call,
\* a remote-only name and a name on both sides.
C1_Witness ==
  /\ Finished
  /\ \E n \in L \ R : attempts[n] = 1 /\ posts[n] = 0
  /\ \E n \in R \ L : deletes[n] = 1
  /\ L \cap R # {}

\* The run whose end this is follows a run with the given property, and
\* List returned 200 in both.
SecondRunAfter(first_ok) ==
  Finished /\ prev.ran /\ prev.list_ok /\ first_ok /\ list_ok
NothingToDo ==
  /\ uploaded_count = 0 /\ deleted_count = 0 /\ error_count = 0
  /\ skipped_count = Len(local_files)
  /\ \A n \in Stems : posts[n] = 0 /\ deletes[n] = 0

\* C2 as stated: when List succeeded in both runs and every Create and
\* Delete call the first run sent succeeded, the second run has uploaded =
\* 0, deleted = 0, errors = 0 and skipped = the number of local names.
C2_Original == SecondRunAfter(prev.calls_ok) => NothingToDo

\* C2, amended: when List succeeded in both runs and the first run ended
\* with no error counted (exit status 0), the second run sends no Create
\* and no Delete call and has uploaded = 0, deleted = 0, errors = 0 and
\* skipped = the number of local names.
C2_Idempotence == SecondRunAfter(prev.exit_code = 0) => NothingToDo

\* The end of a second run after a clean first run that created an emoji.
C2_Witness ==
  /\ SecondRunAfter(prev.exit_code = 0)
  /\ nextId > FirstNewId
  /\ skipped_count >= 2

\* The name a report line starts with: what precedes its first space.
LineName(line) ==
  LET k == CHOOSE i \in 1..Len(line) :
             line[i] = 32 /\ \A j \in 1..(i - 1) : line[j] # 32
  IN  SubSeq(line, 1, k - 1)

\* C3: every run that passes the configuration check writes the report,
\* errors or not; its count is the number of keys of the in-memory
\* inventory as it stands at the end, and its lines name exactly those
\* keys, one line each, in ascending order.
C3_Report ==
  Finished =>
    /\ report_file # <<>>
    /\ LET rep == report_file[1]
           keys == DOMAIN existing_emojis
       IN  /\ rep.total = Cardinality(keys)
           /\ Len(rep.lines) = Cardinality(keys)
           /\ {LineName(rep.lines[i]) : i \in 1..Len(rep.lines)} = keys
           /\ \A i \in 1..(Len(rep.lines) - 1) :
                LexLess(LineName(rep.lines[i]), LineName(rep.lines[i + 1]))

\* A run that ended with errors, with a stale entry (a failed delete) among
\* at least two report lines.
C3_Witness ==
  /\ Finished
  /\ error_count > 0
  /\ report_file # <<>>
  /\ Len(report_file[1].lines) >= 2
  /\ \E n \in DOMAIN existing_emojis : deletes[n] = 1

\* The names whose upload or delete failed in this run: an uploaded name
\* that is not in the inventory, a name with a Delete call that still is.
FailedNames ==
  {n \in Stems : attempts[n] >= 1 /\ n \notin DOMAIN existing_emojis}
  \cup {n \in Stems : deletes[n] >= 1 /\ n \in DOMAIN existing_emojis}

\* C4: the exit status is 1 when the token or the application id is
\* missing or an upload or a delete failed, and 0 otherwise, whatever List
\* returned; there is none while main() runs.
C4_ExitCode ==
  IF pc = "done"
    THEN exit_code =
           (IF ConfigMissing(BOT_TOKEN, APPLICATION_ID) \/ FailedNames # {}
              THEN 1 ELSE 0)
    ELSE exit_code = -1

\* A run whose List failed and that ended with exit status 0 after an
\* upload.
C4_Witness ==
  Finished /\ ~list_ok /\ uploaded_count > 0 /\ exit_code = 0

\* C5: a Create or Delete call answered 429 adds exactly 1 to the error
\* counter, is followed by the 5 second sleep and leaves the inventory as
\* it was; no name has more than one Create or more than one Delete call
\* in a run; and at the end of the run every item of both loops has been
\* handled.
C5_RateLimited ==
  [][/\ (CallStep /\ last'.status = 429) =>
          /\ error_count' = error_count + 1
          /\ last'.pause = SLEEP_RATE_LIMITED
          /\ existing_emojis' = existing_emojis
          /\ uploaded_count' = uploaded_count
          /\ deleted_count' = deleted_count
     /\ \A n \in Stems : posts'[n] <= 1 /\ deletes'[n] <= 1
     /\ Finished' => AllItemsHandled'
    ]_vars

\* A Create call has just been answered 429 and items remain.
C5_Witness ==
  /\ last.op = "upload" /\ last.status = 429
  /\ last.pause = SLEEP_RATE_LIMITED
  /\ pc = "pass1" /\ idx <= Len(local_files)

\* "not available"
NOT_AVAILABLE == <<110, 111, 116, 32, 97, 118, 97, 105, 108, 97, 98, 108, 101>>

\* C6: the upload of an .svg file that is not in the remote inventory,
\* without cairosvg, fails with the "not available" message, sends no
\* Create call, creates no scratch file, adds 1 to the error counter, adds
\* nothing to the inventory, and the loop goes on to the next item.
C6_NoSvgSupport ==
  [][(/\ pc = "pass1" /\ idx <= Len(local_files)
      /\ local_files[idx].path.ext = ".svg"
      /\ local_files[idx].name \notin DOMAIN existing_emojis
      /\ ~SVG_SUPPORT) =>
        /\ last'.op = "upload" /\ last'.name = local_files[idx].name
        /\ Contains(last'.message, NOT_AVAILABLE)
        /\ ~last'.posted /\ posts' = posts
        /\ scratch' = scratch
        /\ error_count' = error_count + 1
        /\ existing_emojis' = existing_emojis
        /\ remote' = remote
        /\ last'.pause = 0
        /\ pc' = "pass1" /\ idx' = idx + 1
    ]_vars

\* Such an upload has just failed and another item follows.
C6_Witness ==
  /\ ~SVG_SUPPORT
  /\ last.op = "upload" /\ last.message = MSG_NO_SVG_SUPPORT
  /\ pc = "pass1" /\ idx <= Len(local_files)

\* C7 as stated: no scratch file exists when main() is between two items
\* (every state of the model: upload_emoji is one step).
C7_NoScratchLeft == scratch = 0

\* The reference code of an emoji as C8 states it, and as amended.
CodeAsStated(name, json) ==
  IF GetAnimated(json)
    THEN <<60, 97, 58>> \o name \o <<58>> \o json.id \o <<62>>
    ELSE <<60>> \o name \o <<58>> \o json.id \o <<62>>
CodeAmended(name, json) ==
  IF GetAnimated(json)
    THEN <<60, 97, 58>> \o name \o <<58>> \o json.id \o <<62>>
    ELSE <<60, 58>> \o name \o <<58>> \o json.id \o <<62>>
ReportHasCode(n, code) ==
  \E i \in 1..Len(report_file[1].lines) :
    LET line == report_file[1].lines[i]
    IN  /\ LineName(line) = n
        /\ SubSeq(line, Len(line) - Len(code), Len(line)) = <<32>> \o code

\* C8 as stated: the report shows <name:id> for an emoji that is not
\* animated and <a:name:id> for an animated one.
C8_Original ==
  Finished =>
    \A n \in DOMAIN existing_emojis :
      n \in DOMAIN returned /\ ReportHasCode(n, CodeAsStated(n, returned[n]))

\* C8, amended: the report shows <:name:id> for an emoji that is not
\* animated and <a:name:id> for an animated one, the id and the flag being
\* those of the JSON object the remote returned for the name (List item or
\* Create response), a missing flag counting as not animated.
C8_Codes ==
  Finished =>
    \A n \in DOMAIN existing_emojis :
      n \in DOMAIN returned /\ ReportHasCode(n, CodeAmended(n, returned[n]))

\* A report with an animated emoji this run created, a listed emoji whose
\* JSON has no animated key, and one whose flag is false.
C8_Witness ==
  /\ Finished
  /\ \E n \in DOMAIN existing_emojis : posts[n] = 1 /\ GetAnimated(returned[n])
  /\ \E n \in DOMAIN existing_emojis : "animated" \notin DOMAIN returned[n]
  /\ \E n \in DOMAIN existing_emojis :
       "animated" \in DOMAIN returned[n] /\ ~returned[n].animated

InMemoryMatchesRemote ==
  /\ DOMAIN existing_emojis = DOMAIN remote
  /\ \A n \in DOMAIN remote : existing_emojis[n].id = remote[n].id

\* C9: after a List that returned 200, between any two calls and when the
\* report is written the in-memory inventory has the names and ids of the
\* remote emoji set; a Create answered 201 inserts the returned entry, a
\* Delete answered 204 removes the entry, a failed call changes nothing.
C9_Consistency ==
  [][/\ list_ok' => InMemoryMatchesRemote'
     /\ (CallStep /\ last'.status \notin {HTTP_CREATED, HTTP_NO_CONTENT}) =>
          existing_emojis' = existing_emojis
     /\ (CallStep /\ last'.op = "upload" /\ last'.status = HTTP_CREATED) =>
          /\ DOMAIN existing_emojis' = (DOMAIN existing_emojis) \cup {last'.name}
          /\ existing_emojis'[last'.name].id = returned'[last'.name].id
          /\ \A n \in DOMAIN existing_emojis :
               existing_emojis'[n] = existing_emojis[n]
     /\ (CallStep /\ last'.op = "delete" /\ last'.status = HTTP_NO_CONTENT) =>
          /\ DOMAIN existing_emojis' = (DOMAIN existing_emojis) \ {last'.name}
          /\ \A n \in DOMAIN existing_emojis' :
               existing_emojis'[n] = existing_emojis[n]
    ]_vars

\* The end of a run with a listed inventory, an upload, a delete and a
\* failed call.
C9_Witness ==
  /\ Finished /\ list_ok
  /\ uploaded_count >= 1 /\ deleted_count >= 1 /\ error_count >= 1

\* C10: after a List that did not return 200 the run goes on to its end:
\* the inventory starts empty and only ever holds local names, no local
\* name is skipped, every local name gets one upload attempt, and no Delete
\* call is sent.
C10_ListFailed ==
  (~list_ok /\ pc \in {"pass1", "pass2", "done"}
   /\ ~ConfigMissing(BOT_TOKEN, APPLICATION_ID)) =>
    /\ (pc = "pass1" /\ idx = 1) => existing_emojis = EmptyDict
    /\ DOMAIN existing_emojis \subseteq L
    /\ skipped_count = 0
    /\ \A n \in Stems : deletes[n] = 0
    /\ pc = "pass2" => todo = {}
    /\ pc # "done" => ENABLED Next
    /\ pc = "done" => report_file # <<>> /\ \A n \in L : attempts[n] = 1

\* The end of such a run, with an emoji on the remote side that is not in
\* the folder, an upload and a failed upload.
C10_Witness ==
  /\ Finished /\ ~list_ok
  /\ (DOMAIN remote) \ L # {}
  /\ uploaded_count >= 1 /\ error_count >= 1

====
